---- MODULE Spec2Model ----
(***************************************************************************)
(* parser_utils.py: the block scanner to_blocks and the inline             *)
(* transformer format_text, with the line detectors both are built on.     *)
(*                                                                         *)
(* A Python str is a sequence of one-character strings; indices into lines *)
(* and into lists of lines are 0-based as in the source (At reads one).    *)
(* Regular expressions are kept as syntax trees and matched by a           *)
(* backtracking matcher that yields the possible matches in the order      *)
(* Python's re module tries them, so the first one is the match re gives.  *)
(***************************************************************************)
EXTENDS Integers, Sequences, FiniteSets, TLC

\* Longest list of lines handed to to_blocks.
MaxLen == 4
\* Largest number of tokens the line handed to format_text is built from.
MaxTokens == 3

\* ------------------------------------------------------------------------
\* Python strings and lists
\* ------------------------------------------------------------------------

\* The backtick character (written <BT> in the patterns quoted below).
BT == "BT"

None == <<-1, -1>>
Inf == 0 - 1

At(lst, k) == lst[k + 1]

Min(S) == CHOOSE k \in S : \A j \in S : k <= j

Whitespace == {" ", "\t"}
Digits == {"0", "1", "2", "3", "4", "5", "6", "7", "8", "9"}
Letters == {"a", "b", "c", "d", "e", "f", "g", "h", "i", "j", "k", "l", "m",
            "n", "o", "p", "q", "r", "s", "t", "u", "v", "w", "x", "y", "z",
            "A", "B", "C", "D", "E", "F", "G", "H", "I", "J", "K", "L", "M",
            "N", "O", "P", "Q", "R", "S", "T", "U", "V", "W", "X", "Y", "Z"}
WordChars == Letters \cup Digits \cup {"_"}

RECURSIVE lstrip(_)
lstrip(s) == IF s # <<>> /\ Head(s) \in Whitespace THEN lstrip(Tail(s)) ELSE s

RECURSIVE rstrip(_)
rstrip(s) ==
    IF s # <<>> /\ s[Len(s)] \in Whitespace
    THEN rstrip(SubSeq(s, 1, Len(s) - 1))
    ELSE s

strip(s) == rstrip(lstrip(s))

\* line.lstrip('> '): drops every leading character that is '>' or ' '.
RECURSIVE lstrip_chars(_, _)
lstrip_chars(s, chars) ==
    IF s # <<>> /\ Head(s) \in chars THEN lstrip_chars(Tail(s), chars) ELSE s

\* s[:n]
Prefix(s, n) == SubSeq(s, 1, IF Len(s) < n THEN Len(s) ELSE n)

\* s.split(sep) with a one-character separator: every separator cuts, so
\* leading, trailing and doubled separators give empty pieces.
RECURSIVE split(_, _)
split(s, sep) ==
    LET hits == {k \in 1..Len(s) : s[k] = sep}
    IN  IF hits = {}
        THEN <<s>>
        ELSE <<SubSeq(s, 1, Min(hits) - 1)>>
                 \o split(SubSeq(s, Min(hits) + 1, Len(s)), sep)

\* Offsets (0-based) at which old occurs in s.
Occurrences(s, old) ==
    {p \in 0..(Len(s) - Len(old)) : SubSeq(s, p + 1, p + Len(old)) = old}

\* s.replace(old, new, 1)
replace_first(s, old, new) ==
    IF Occurrences(s, old) = {}
    THEN s
    ELSE LET p == Min(Occurrences(s, old))
         IN  SubSeq(s, 1, p) \o new \o SubSeq(s, p + Len(old) + 1, Len(s))

\* s.replace(c, new) for a one-character c: every occurrence, left to right.
RECURSIVE replace_char(_, _, _)
replace_char(s, c, new) ==
    IF s = <<>>
    THEN <<>>
    ELSE (IF Head(s) = c THEN new ELSE <<Head(s)>>)
             \o replace_char(Tail(s), c, new)

\* ------------------------------------------------------------------------
\* Regular expressions (module re)
\* ------------------------------------------------------------------------

Chr(c) == [t |-> "chr", c |-> c]
Dot == [t |-> "any"]
In(S) == [t |-> "set", s |-> S]
NotIn(S) == [t |-> "nset", s |-> S]
Bol == [t |-> "bol"]
Eol == [t |-> "eol"]
Cat(a) == [t |-> "cat", a |-> a]
Alt(a) == [t |-> "alt", a |-> a]
Rep(r, lo, hi) == [t |-> "rep", r |-> r, lo |-> lo, hi |-> hi, lazy |-> FALSE]
LazyRep(r, lo, hi) == [t |-> "rep", r |-> r, lo |-> lo, hi |-> hi, lazy |-> TRUE]
Grp(n, r) == [t |-> "grp", n |-> n, r |-> r]
\* (?<!r) for a one-character r, and (?!r)
NotBehind(r) == [t |-> "nlb", r |-> r]
NotAhead(r) == [t |-> "nla", r |-> r]
Lit(str) == Cat([k \in 1..Len(str) |-> Chr(str[k])])

NoCaps == <<None, None>>
Fail == [ok |-> FALSE]

\* One character against a one-character pattern.
Matches(re, c) ==
    CASE re.t = "chr" -> c = re.c
      [] re.t = "any" -> c # "\n"
      [] re.t = "set" -> c \in re.s
      [] re.t = "nset" -> c \notin re.s

\* How many characters from offset p on match re, counting no further than hi.
Run(re, s, p, hi) ==
    LET stops == {q \in p..(Len(s) - 1) : ~Matches(re, s[q + 1])}
        m == IF stops = {} THEN Len(s) - p ELSE Min(stops) - p
    IN  IF hi # Inf /\ m > hi THEN hi ELSE m

\* M(k, s, p, caps): the first way, in backtracking order, to match the
\* patterns k one after the other from offset p of s, with the offset it ends
\* at and the groups it captured; Fail if there is none.  An alternation tries
\* its first branch and then the alternation of the others.  Every repetition
\* in the source's patterns is of a one-character pattern: "down" tries c
\* characters of its run and then one fewer, from the longest run; "up", for
\* a lazy repetition, tries c and then one more, from the shortest.
RECURSIVE M(_, _, _, _)
M(k, s, p, caps) ==
    IF k = <<>>
    THEN [ok |-> TRUE, e |-> p, caps |-> caps]
    ELSE LET re == Head(k)
             rest == Tail(k)
         IN  CASE re.t \in {"chr", "any", "set", "nset"} ->
                    IF p < Len(s) /\ Matches(re, s[p + 1])
                    THEN M(rest, s, p + 1, caps)
                    ELSE Fail
               [] re.t = "bol" -> IF p = 0 THEN M(rest, s, p, caps) ELSE Fail
               [] re.t = "eol" ->
                    IF p = Len(s) THEN M(rest, s, p, caps) ELSE Fail
               [] re.t = "cat" -> M(re.a \o rest, s, p, caps)
               [] re.t = "alt" ->
                    IF re.a = <<>>
                    THEN Fail
                    ELSE LET r == M(<<Head(re.a)>> \o rest, s, p, caps)
                         IN  IF r.ok
                             THEN r
                             ELSE M(<<[t |-> "alt", a |-> Tail(re.a)]>>
                                        \o rest, s, p, caps)
               [] re.t = "rep" ->
                    LET m == Run(re.r, s, p, re.hi)
                    IN  IF m < re.lo
                        THEN Fail
                        ELSE IF re.lazy
                        THEN M(<<[t |-> "up", c |-> re.lo, last |-> m]>>
                                   \o rest, s, p, caps)
                        ELSE M(<<[t |-> "down", c |-> m, last |-> re.lo]>>
                                   \o rest, s, p, caps)
               [] re.t = "up" ->
                    LET r == M(rest, s, p + re.c, caps)
                    IN  IF r.ok
                        THEN r
                        ELSE IF re.c = re.last
                        THEN Fail
                        ELSE M([k EXCEPT ![1].c = @ + 1], s, p, caps)
               [] re.t = "down" ->
                    LET r == M(rest, s, p + re.c, caps)
                    IN  IF r.ok
                        THEN r
                        ELSE IF re.c = re.last
                        THEN Fail
                        ELSE M([k EXCEPT ![1].c = @ - 1], s, p, caps)
               [] re.t = "grp" ->
                    M(<<re.r, [t |-> "end", n |-> re.n, start |-> p]>> \o rest,
                      s, p, caps)
               [] re.t = "end" ->
                    M(rest, s, p, [caps EXCEPT ![re.n] = <<re.start, p>>])
               [] re.t = "nla" ->
                    IF M(<<re.r>>, s, p, caps).ok
                    THEN Fail
                    ELSE M(rest, s, p, caps)
               [] re.t = "nlb" ->
                    IF p >= 1 /\ M(<<re.r>>, s, p - 1, caps).ok
                    THEN Fail
                    ELSE M(rest, s, p, caps)

NoMatch == [matched |-> FALSE]

\* The match object of a match found from offset p, or no match.
as_match(r, p) ==
    IF r.ok
    THEN [matched |-> TRUE, start |-> p, end |-> r.e, caps |-> r.caps]
    ELSE NoMatch

MatchAt(re, s, p) ==
    LET r == M(<<re>>, s, p, NoCaps) IN as_match(r, p)

\* re.match(re, s): a match starting at offset 0, or no match.
re_match(re, s) == MatchAt(re, s, 0)

\* match.group(n)
group(m, s, n) == SubSeq(s, m.caps[n][1] + 1, m.caps[n][2])

or_else(m, other) == IF m.matched THEN m ELSE other

\* The leftmost match starting at offset from or later.
RECURSIVE re_search(_, _, _)
re_search(re, s, from) ==
    IF from > Len(s)
    THEN NoMatch
    ELSE LET m == MatchAt(re, s, from)
         IN  or_else(m, re_search(re, s, from + 1))

\* Where the search goes on after the match m: at its end, one further on
\* after an empty match.
next_from(m) == IF m.end > m.start THEN m.end ELSE m.end + 1

\* re.findall(re, s) for a pattern without groups: the matched texts of the
\* non-overlapping matches, left to right; m is the next match.
RECURSIVE findall_from(_, _, _)
findall_from(re, s, m) ==
    IF ~m.matched
    THEN <<>>
    ELSE LET next == re_search(re, s, next_from(m))
         IN  <<SubSeq(s, m.start + 1, m.end)>> \o findall_from(re, s, next)

re_findall(re, s) ==
    LET first == re_search(re, s, 0) IN findall_from(re, s, first)

\* A replacement template is a sequence of parts: literal text (g = 0) or a
\* group reference \g.
Text(str) == [g |-> 0, lit |-> str]
Ref(n) == [g |-> n, lit |-> <<>>]

RECURSIVE expand(_, _, _, _)
expand(repl, k, s, m) ==
    IF k > Len(repl)
    THEN <<>>
    ELSE (IF repl[k].g = 0 THEN repl[k].lit ELSE group(m, s, repl[k].g))
             \o expand(repl, k + 1, s, m)

\* re.sub(re, repl, s): every non-overlapping match, left to right, replaced;
\* m is the next match, s is copied from offset from on.
RECURSIVE sub_from(_, _, _, _, _)
sub_from(re, repl, s, from, m) ==
    IF ~m.matched
    THEN SubSeq(s, from + 1, Len(s))
    ELSE LET next == re_search(re, s, next_from(m))
         IN  SubSeq(s, from + 1, m.start) \o expand(repl, 1, s, m)
                 \o SubSeq(s, m.end + 1, Min({next_from(m), Len(s)}))
                 \o sub_from(re, repl, s, next_from(m), next)

re_sub(re, repl, s) ==
    LET first == re_search(re, s, 0) IN sub_from(re, repl, s, 0, first)

\* ------------------------------------------------------------------------
\* Line detectors
\* ------------------------------------------------------------------------

\* A detector gives False (NoMatch) or a value; truthy is Python's test of
\* it in a condition: a str counts as true only when it is not empty.
truthy(r) == r.matched /\ (("str" \in DOMAIN r) => r.str # <<>>)

\* ^(#{level})\s(.*)
R_header_level(level) ==
    Cat(<<Bol, Grp(1, Rep(Chr("#"), level, level)), In(Whitespace),
          Grp(2, Rep(Dot, 0, Inf))>>)

\* ^(#{1,3})\s(.*)
R_header ==
    Cat(<<Bol, Grp(1, Rep(Chr("#"), 1, 3)), In(Whitespace),
          Grp(2, Rep(Dot, 0, Inf))>>)

\* detect_header with its level argument dropped: a header of any level.
detect_header_any_level(line, level) ==
    LET match == re_match(R_header, line)
    IN  IF match.matched
        THEN [matched |-> TRUE,
              h_level |-> Len(group(match, line, 1)),
              title |-> group(match, line, 2)]
        ELSE NoMatch

\* level = 0 stands for level=None (both are false in "if level").
detect_header(line, level) ==
    LET match == IF level # 0
                 THEN re_match(R_header_level(level), line)
                 ELSE re_match(R_header, line)
    IN  IF match.matched
        THEN [matched |-> TRUE,
              h_level |-> Len(group(match, line, 1)),
              title |-> group(match, line, 2)]
        ELSE NoMatch

\* ^\[\^(.+?)]:(.*)
R_footnote ==
    Cat(<<Bol, Chr("["), Chr("^"), Grp(1, LazyRep(Dot, 1, Inf)),
          Chr("]"), Chr(":"), Grp(2, Rep(Dot, 0, Inf))>>)

detect_footnote(line) ==
    LET match == re_match(R_footnote, line)
    IN  IF match.matched
        THEN [matched |-> TRUE,
              mark |-> group(match, line, 1),
              text |-> strip(group(match, line, 2))]
        ELSE NoMatch

\* ^#{4}\s(.*)
R_command ==
    Cat(<<Bol, Rep(Chr("#"), 4, 4), In(Whitespace), Grp(1, Rep(Dot, 0, Inf))>>)

detect_command(line) ==
    LET match == re_match(R_command, line)
    IN  IF match.matched
        THEN [matched |-> TRUE, str |-> group(match, line, 1)]
        ELSE NoMatch

\* ^!\[\[(.+\.png|.+\.jpg)\]\](.*)$
R_figure ==
    Cat(<<Bol, Chr("!"), Chr("["), Chr("["),
          Grp(1, Alt(<<Cat(<<Rep(Dot, 1, Inf), Lit(<<".", "p", "n", "g">>)>>),
                       Cat(<<Rep(Dot, 1, Inf), Lit(<<".", "j", "p", "g">>)>>)>>)),
          Chr("]"), Chr("]"), Grp(2, Rep(Dot, 0, Inf)), Eol>>)

\* The value is the list [name] + settings.
detect_figure(line) ==
    LET match == re_match(R_figure, strip(line))
        name == group(match, strip(line), 1)
        settings == IF group(match, strip(line), 2) = <<>>
                    THEN <<>>
                    ELSE split(group(match, strip(line), 2), " ")
    IN  IF match.matched
        THEN [matched |-> TRUE, list |-> <<name>> \o settings]
        ELSE NoMatch

\* <BT>eq_label:(\S.*)<BT>
R_labeled_equation ==
    Cat(<<Lit(<<BT, "e", "q", "_", "l", "a", "b", "e", "l", ":">>),
          Grp(1, Cat(<<NotIn(Whitespace), Rep(Dot, 0, Inf)>>)), Chr(BT)>>)

detect_labeled_equation(line) ==
    LET match == re_match(R_labeled_equation, strip(line))
    IN  IF match.matched
        THEN [matched |-> TRUE,
              str |-> <<"e", "q", ":">> \o strip(group(match, strip(line), 1))]
        ELSE NoMatch

is_comment(line) == detect_command(line)

is_equation_dollars(line) == Prefix(strip(line), 2) = <<"$", "$">>

is_list_item(line) ==
    IF Len(strip(line)) = 0 THEN FALSE ELSE strip(line)[1] = "-"

is_quote(line) ==
    IF Len(strip(line)) = 0 THEN FALSE ELSE strip(line)[1] = ">"

is_ignore_line(line) == Len(strip(line)) = 0 \/ truthy(is_comment(line))

is_separator_line(line) == strip(line) = <<"-", "-", "-">>

\* is_end_paragraph with figure and footnote lines added to what ends a
\* paragraph.
is_end_paragraph_or_figure(line) ==
    \/ is_ignore_line(line)
    \/ is_separator_line(line)
    \/ is_equation_dollars(line)
    \/ is_list_item(line)
    \/ is_quote(line)
    \/ truthy(detect_command(line))
    \/ truthy(detect_labeled_equation(line))
    \/ truthy(detect_header(line, 0))
    \/ truthy(detect_figure(line))
    \/ truthy(detect_footnote(line))

is_end_paragraph(line) ==
    \/ is_ignore_line(line)
    \/ is_separator_line(line)
    \/ is_equation_dollars(line)
    \/ is_list_item(line)
    \/ is_quote(line)
    \/ truthy(detect_command(line))
    \/ truthy(detect_labeled_equation(line))
    \/ truthy(detect_header(line, 0))

\* find_next_index with start left at its default, 0.
find_next_index_default_start(lst, expr, start) ==
    LET hits == {k \in 0..(Len(lst) - 1) : expr[At(lst, k)]}
    IN  IF hits = {} THEN Len(lst) ELSE Min(hits)

\* expr is the predicate as a function on the lines of lst.
find_next_index(lst, expr, start) ==
    LET hits == {k \in start..(Len(lst) - 1) : expr[At(lst, k)]}
    IN  IF hits = {} THEN Len(lst) ELSE Min(hits)

\* text_lines[a:b]
Slice(lst, a, b) == SubSeq(lst, a + 1, IF b > Len(lst) THEN Len(lst) ELSE b)

Lines(lst) == {lst[k] : k \in 1..Len(lst)}

\* ------------------------------------------------------------------------
\* Blocks: the constructor calls of module blocks, kept as their arguments
\* ------------------------------------------------------------------------

\* The fig_path and parent arguments of to_blocks (parent=None by default).
fig_path == "fig_path"
parent == "None"

NoBlock == [type |-> "None"]

Section(h_level, title, content, path) ==
    [type |-> "Section", h_level |-> h_level, title |-> title,
     content |-> content, fig_path |-> path, parent |-> "None"]

\* label = <<>> when the call passes no label.
Equation(content, label) ==
    [type |-> "Equation", content |-> content, label |-> label,
     parent |-> "None"]

List(content) == [type |-> "List", content |-> content, parent |-> "None"]

Quote(content) == [type |-> "Quote", content |-> content, parent |-> "None"]

Figure(settings, label, caption, path) ==
    [type |-> "Figure", settings |-> settings, label |-> label,
     caption |-> caption, path |-> path, parent |-> "None"]

Footnote(footnote_mark, content) ==
    [type |-> "Footnote", footnote_mark |-> footnote_mark,
     content |-> content, parent |-> "None"]

Paragraph(content) ==
    [type |-> "Paragraph", content |-> content, parent |-> "None"]

\* ------------------------------------------------------------------------
\* to_blocks: one iteration of the scan loop, per branch
\* ------------------------------------------------------------------------

\* What an iteration comes to: a block and the new pointer, or an exception.
Ok(block, next) == [raised |-> FALSE, block |-> block, next |-> next]
Raise(type, msg) == [raised |-> TRUE, error |-> [type |-> type, msg |-> msg]]

\* text_lines[k] read past the end of the list.
IndexError == Raise("IndexError", "list index out of range")

\* The first branch of the if/elif chain that takes the line.
branch(line) ==
    IF is_ignore_line(line) THEN "ignore"
    ELSE IF is_separator_line(line) THEN "separator"
    ELSE IF truthy(detect_header(line, 0)) THEN "header"
    ELSE IF is_equation_dollars(line) THEN "equation"
    ELSE IF truthy(detect_labeled_equation(line)) THEN "labeled"
    ELSE IF is_list_item(line) THEN "list"
    ELSE IF is_quote(line) THEN "quote"
    ELSE IF truthy(detect_figure(line)) THEN "figure"
    ELSE IF truthy(detect_footnote(line)) THEN "footnote"
    ELSE "paragraph"

section_block(lst, k) ==
    LET header == detect_header(At(lst, k), 0)
        h_level == header.h_level
        title == header.title
        end_section_i ==
            find_next_index(lst,
                [l \in Lines(lst) |-> truthy(detect_header(l, h_level))], k + 1)
    IN  Ok(Section(h_level, title, Slice(lst, k + 1, end_section_i), fig_path),
           end_section_i)

equation_block(lst, k) ==
    LET end_equation_i ==
            find_next_index(lst,
                [l \in Lines(lst) |-> is_equation_dollars(l)], k + 1)
    IN  Ok(Equation(Slice(lst, k + 1, end_equation_i), <<>>),
           end_equation_i + 1)

labeled_equation_block(lst, k) ==
    LET label == detect_labeled_equation(At(lst, k)).str
        k1 == k + 1
        end_equation_i ==
            find_next_index(lst,
                [l \in Lines(lst) |-> is_equation_dollars(l)], k1 + 1)
    IN  IF k + 1 >= Len(lst)
        THEN IndexError
        ELSE IF ~is_equation_dollars(At(lst, k + 1))
        THEN Raise("AssertionError", "Equation dollars must be alone in a line")
        ELSE Ok(Equation(Slice(lst, k1 + 1, end_equation_i), label),
                end_equation_i + 1)

list_block(lst, k) ==
    LET end_list_i ==
            find_next_index(lst,
                [l \in Lines(lst) |-> ~is_list_item(l)], k + 1)
    IN  Ok(List(Slice(lst, k, end_list_i)), end_list_i)

quote_block(lst, k) ==
    LET end_quote_i ==
            find_next_index(lst, [l \in Lines(lst) |-> ~is_quote(l)], k + 1)
        lines == Slice(lst, k, end_quote_i)
    IN  Ok(Quote([n \in 1..Len(lines) |-> lstrip_chars(lines[n], {">", " "})]),
           end_quote_i)

\* ^<BT>(.*?)<BT>:(.*)
R_caption ==
    Cat(<<Bol, Chr(BT), Grp(1, LazyRep(Dot, 0, Inf)), Chr(BT), Chr(":"),
          Grp(2, Rep(Dot, 0, Inf))>>)

figure_block(lst, k) ==
    LET settings == detect_figure(At(lst, k)).list
        alt_data == re_match(R_caption, At(lst, k + 1))
        label == strip(group(alt_data, At(lst, k + 1), 1))
        caption == strip(group(alt_data, At(lst, k + 1), 2))
    IN  IF k + 1 >= Len(lst)
        THEN IndexError
        ELSE IF ~alt_data.matched
        THEN Raise("AssertionError",
                   <<"Caption of figure <", settings[1], "> badly formed">>)
        ELSE Ok(Figure(settings, label, caption, fig_path), k + 2)

footnote_block(lst, k) ==
    LET footnote_match == detect_footnote(At(lst, k))
    IN  Ok(Footnote(footnote_match.mark, <<footnote_match.text>>), k + 1)

paragraph_block(lst, k) ==
    LET end_paragraph_i ==
            find_next_index(lst,
                [l \in Lines(lst) |-> is_end_paragraph(l)], k + 1)
    IN  Ok(Paragraph(Slice(lst, k, end_paragraph_i)), end_paragraph_i)

\* The iteration at position k when its line takes branch b: the block and
\* the new pointer, or the exception.  The flag is not among what it reads.
step_of(b, lst, k) ==
    CASE b \in {"ignore", "separator"} -> Ok(NoBlock, k + 1)
      [] b = "header" -> section_block(lst, k)
      [] b = "equation" -> equation_block(lst, k)
      [] b = "labeled" -> labeled_equation_block(lst, k)
      [] b = "list" -> list_block(lst, k)
      [] b = "quote" -> quote_block(lst, k)
      [] b = "figure" -> figure_block(lst, k)
      [] b = "footnote" -> footnote_block(lst, k)
      [] b = "paragraph" -> paragraph_block(lst, k)

\* The iteration at position k.
step(lst, k) == step_of(branch(At(lst, k)), lst, k)

\* block.parent = parent
with_parent(block, p) == [block EXCEPT !.parent = p]

\* The append without its "if not is_ignoring".
emit_unconditionally(blocks, block, ignoring) == Append(blocks, block)

\* if not is_ignoring: content_blocks.append(block)
emit(blocks, block, ignoring) ==
    IF ~ignoring THEN Append(blocks, block) ELSE blocks

\* ------------------------------------------------------------------------
\* format_text: the stages applied to one line
\* ------------------------------------------------------------------------

LATEX_SPECIAL_CHARS == <<"$", "%", "_", "}", "&", "#", "{">>

EQ_PLACEHOLDER ==
    <<"<", "E", "Q", "-", "P", "L", "A", "C", "E", "H", "O", "L", "D", "E",
      "R", ">">>
LINK_PLACEHOLDER ==
    <<"<", "L", "I", "N", "K", "-", "P", "L", "A", "C", "E", "H", "O", "L",
      "D", "E", "R", ">">>
CODE_PLACEHOLDER ==
    <<"<", "C", "O", "D", "E", "-", "P", "L", "A", "C", "E", "H", "O", "L",
      "D", "E", "R", ">">>

\* \$.*?\$
R_equations == Cat(<<Chr("$"), LazyRep(Dot, 0, Inf), Chr("$")>>)

\* \[\[.*?]]
R_links ==
    Cat(<<Chr("["), Chr("["), LazyRep(Dot, 0, Inf), Chr("]"), Chr("]")>>)

\* <BT>.*?<BT>
R_codes == Cat(<<Chr(BT), LazyRep(Dot, 0, Inf), Chr(BT)>>)

\* The three re.sub calls that put the placeholders in.
protect(line) ==
    re_sub(R_codes, <<Text(CODE_PLACEHOLDER)>>,
        re_sub(R_links, <<Text(LINK_PLACEHOLDER)>>,
            re_sub(R_equations, <<Text(EQ_PLACEHOLDER)>>, line)))

\* for special_char in LATEX_SPECIAL_CHARS: replace it by \special_char
RECURSIVE escape_from(_, _)
escape_from(line, k) ==
    IF k > Len(LATEX_SPECIAL_CHARS)
    THEN line
    ELSE escape_from(
             replace_char(line, LATEX_SPECIAL_CHARS[k],
                          <<"\\", LATEX_SPECIAL_CHARS[k]>>),
             k + 1)

escape(line) == escape_from(line, 1)

\* (?<!\[)(\[.*])(?!])  ->  {\1}
R_brackets ==
    Cat(<<NotBehind(Chr("[")),
          Grp(1, Cat(<<Chr("["), Rep(Dot, 0, Inf), Chr("]")>>)),
          NotAhead(Chr("]"))>>)

group_brackets(line) ==
    re_sub(R_brackets, <<Text(<<"{">>), Ref(1), Text(<<"}">>)>>, line)

\* for span in spans: line = line.replace(placeholder, span, 1)
RECURSIVE put_back(_, _, _, _)
put_back(line, placeholder, spans, k) ==
    IF k > Len(spans)
    THEN line
    ELSE put_back(replace_first(line, placeholder, spans[k]),
                  placeholder, spans, k + 1)

restore(line, equations, links, codes) ==
    put_back(
        put_back(
            put_back(line, LINK_PLACEHOLDER, links, 1),
            EQ_PLACEHOLDER, equations, 1),
        CODE_PLACEHOLDER, codes, 1)

\* [18|19|20] is a character class: one of 1 8 | 9 2 0.
YearClass == In({"1", "8", "|", "9", "2", "0"})

\* \w+[18|19|20]\d{2}\w*
R_key ==
    Cat(<<Rep(In(WordChars), 1, Inf), YearClass, Rep(In(Digits), 2, 2),
          Rep(In(WordChars), 0, Inf)>>)

\* \w+[18|19|20]\d{2}\w*?
R_key_lazy ==
    Cat(<<Rep(In(WordChars), 1, Inf), YearClass, Rep(In(Digits), 2, 2),
          LazyRep(In(WordChars), 0, Inf)>>)

\* <BT>(\w+[18|19|20]\d{2}\w*)<BT>  ->  [[\1]]
R_code_citation == Cat(<<Chr(BT), Grp(1, R_key), Chr(BT)>>)

code_citations(line) ==
    re_sub(R_code_citation,
           <<Text(<<"[", "[">>), Ref(1), Text(<<"]", "]">>)>>, line)

\* (\w+[18|19|20]\d{2}\w*?)\]\][,|\s]{0,2}\[\[(\w+[18|19|20]\d{2}\w*?)
\*   ->  \1,\2
R_join ==
    Cat(<<Grp(1, R_key_lazy), Chr("]"), Chr("]"),
          Rep(In({",", "|"} \cup Whitespace), 0, 2), Chr("["), Chr("["),
          Grp(2, R_key_lazy)>>)

\* The joining with a replacement that keeps the brackets: \1]],[[\2
join_citations_keeping_brackets(line) ==
    re_sub(R_join, <<Ref(1), Text(<<"]", "]", ",", "[", "[">>), Ref(2)>>, line)

join_citations(line) == re_sub(R_join, <<Ref(1), Text(<<",">>), Ref(2)>>, line)

Command(name) == <<"\\">> \o name \o <<"{">>

\* \[\[(\w+[18|19|20]\d{2}\S*?)\]\]  ->  \\cite{\1}
R_citation ==
    Cat(<<Chr("["), Chr("["),
          Grp(1, Cat(<<Rep(In(WordChars), 1, Inf), YearClass,
                       Rep(In(Digits), 2, 2),
                       LazyRep(NotIn(Whitespace), 0, Inf)>>)),
          Chr("]"), Chr("]")>>)

\* <BT>(fig:\S*?)<BT>  ->  \\ref{\1}
R_fig_ref ==
    Cat(<<Chr(BT),
          Grp(1, Cat(<<Lit(<<"f", "i", "g", ":">>),
                       LazyRep(NotIn(Whitespace), 0, Inf)>>)),
          Chr(BT)>>)

\* <BT>(eq:\S*?)<BT>  ->  \\ref{\1}
R_eq_ref ==
    Cat(<<Chr(BT),
          Grp(1, Cat(<<Lit(<<"e", "q", ":">>),
                       LazyRep(NotIn(Whitespace), 0, Inf)>>)),
          Chr(BT)>>)

Wrap(name) == <<Text(Command(name)), Ref(1), Text(<<"}">>)>>

citations_and_references(line) ==
    re_sub(R_eq_ref, Wrap(<<"r", "e", "f">>),
        re_sub(R_fig_ref, Wrap(<<"r", "e", "f">>),
            re_sub(R_citation, Wrap(<<"c", "i", "t", "e">>), line)))

\* <BT>(.*?)<BT>  ->  \\texttt{\1}
R_monospace == Cat(<<Chr(BT), Grp(1, LazyRep(Dot, 0, Inf)), Chr(BT)>>)

\* (?<!\*)\*"([^\*].*?)"\*(?!\*)  ->  \\textquote{\1}
R_textquote ==
    Cat(<<NotBehind(Chr("*")), Chr("*"), Chr("\""),
          Grp(1, Cat(<<NotIn({"*"}), LazyRep(Dot, 0, Inf)>>)),
          Chr("\""), Chr("*"), NotAhead(Chr("*"))>>)

\* (?<!\*)\*([^\*].*?)\*(?!\*)  ->  \\textit{\1}
R_italic ==
    Cat(<<NotBehind(Chr("*")), Chr("*"),
          Grp(1, Cat(<<NotIn({"*"}), LazyRep(Dot, 0, Inf)>>)),
          Chr("*"), NotAhead(Chr("*"))>>)

\* \*\*([^\*].*?)\*\*  ->  \\textbf{\1}
R_bold ==
    Cat(<<Chr("*"), Chr("*"),
          Grp(1, Cat(<<NotIn({"*"}), LazyRep(Dot, 0, Inf)>>)),
          Chr("*"), Chr("*")>>)

\* ==([^=].*?)==  ->  \\hl{\1}
R_highlight ==
    Cat(<<Chr("="), Chr("="),
          Grp(1, Cat(<<NotIn({"="}), LazyRep(Dot, 0, Inf)>>)),
          Chr("="), Chr("=")>>)

text_formatting(line) ==
    re_sub(R_highlight, Wrap(<<"h", "l">>),
        re_sub(R_bold, Wrap(<<"t", "e", "x", "t", "b", "f">>),
            re_sub(R_italic, Wrap(<<"t", "e", "x", "t", "i", "t">>),
                re_sub(R_textquote,
                       Wrap(<<"t", "e", "x", "t", "q", "u", "o", "t", "e">>),
                    re_sub(R_monospace,
                           Wrap(<<"t", "e", "x", "t", "t", "t">>), line)))))

\* ------------------------------------------------------------------------
\* State
\* ------------------------------------------------------------------------

VARIABLES
    call,              \* the function called: "to_blocks" or "format_text"
    text_lines,        \* the list of lines being worked on
    i,                 \* the index into text_lines
    content_blocks,    \* to_blocks: the blocks to return
    is_ignoring,       \* to_blocks: the ignore-region flag
    status,            \* to_blocks: "scanning", "returned" or "raised"
    error,             \* to_blocks: the exception raised, if any
    stdout,            \* to_blocks: what print has written
    items,             \* to_blocks, history: what each iteration handled
    text_lines_origin, \* format_text: its argument
    equations,         \* format_text: the spans taken out of the line
    links,
    codes,
    joining,           \* format_text: the condition of the joining loop
    length_before,     \* format_text: len(text_lines[i]) before a pass
    pc,                \* format_text: the statement to run next
    passes             \* format_text, history: passes of the joining loop

scan_vars == <<content_blocks, is_ignoring, status, error, stdout, items>>

format_vars ==
    <<text_lines_origin, equations, links, codes, joining, length_before, pc,
      passes>>

vars == <<call, text_lines, i, scan_vars, format_vars>>

NoError == [type |-> "None", msg |-> ""]

Warning == "\t\tWARNING: did not find a matching separator"

\* The lines the scanner is tried on: one or two of each kind it tells apart.
L_blank == <<>>
L_text == <<"x">>
L_separator == <<"-", "-", "-">>
L_item == <<"-", " ", "a">>
L_h1 == <<"#", " ", "T">>
L_h2 == <<"#", "#", " ", "U">>
L_dollars == <<"$", "$">>
L_dollars_text == <<"$", "$", "y">>
L_marker == <<BT, "e", "q", "_", "l", "a", "b", "e", "l", ":", "f", BT>>
L_quote == <<">", " ", "q">>
L_figure == <<"!", "[", "[", "a", ".", "p", "n", "g", "]", "]", " ", "w", "1">>
L_caption == <<BT, "k", BT, ":", " ", "c">>
L_footnote == <<"[", "^", "1", "]", ":", " ", "n">>

LineVocab ==
    {L_blank, L_text, L_separator, L_item, L_h1, L_h2, L_dollars,
     L_dollars_text, L_marker, L_quote, L_figure, L_caption, L_footnote}

\* branch, worked out once for each line of the vocabulary.
branch_table == [l \in LineVocab |-> branch(l)]

\* The pieces the line given to format_text is put together from.
T_math == <<"$", "a", "_", "$">>
T_link == <<"[", "[", "n", "]", "]">>
T_code == <<BT, "c", BT>>
T_code_math == <<BT, "$", "b", "$", BT>>
T_cite == <<"[", "[", "k", "2", "0", "2", "0", "]", "]">>
T_percent == <<"%">>
T_bracket == <<"[", "z", "]">>
T_comma == <<",", " ">>

TokenVocab ==
    {T_math, T_link, T_code, T_code_math, T_cite, T_percent, T_bracket,
     T_comma}

RECURSIVE concat(_)
concat(strs) == IF strs = <<>> THEN <<>> ELSE Head(strs) \o concat(Tail(strs))

FormatLines ==
    UNION {{concat(f) : f \in [1..n -> TokenVocab]} : n \in 0..MaxTokens}

ScanIdle ==
    /\ content_blocks = <<>>
    /\ is_ignoring = FALSE
    /\ error = NoError
    /\ stdout = <<>>
    /\ items = <<>>

FormatIdle ==
    /\ text_lines_origin = <<>>
    /\ equations = <<>>
    /\ links = <<>>
    /\ codes = <<>>
    /\ joining = FALSE
    /\ length_before = 0
    /\ pc = "idle"
    /\ passes = 0

\* to_blocks(text_lines, fig_path) is called with a list of lines.
ScanInit ==
    /\ call = "to_blocks"
    /\ text_lines \in UNION {[1..n -> LineVocab] : n \in 0..MaxLen}
    /\ i = 0
    /\ status = "scanning"
    /\ ScanIdle
    /\ FormatIdle

\* format_text(text_lines_origin) is called with a list of one line (the
\* body of its for loop reads and writes text_lines[i] only) and has taken
\* its deep copy.
FormatInit ==
    /\ call = "format_text"
    /\ text_lines_origin \in {<<line>> : line \in FormatLines}
    /\ text_lines = text_lines_origin
    /\ i = 0
    /\ status = "idle"
    /\ ScanIdle
    /\ equations = <<>>
    /\ links = <<>>
    /\ codes = <<>>
    /\ joining = FALSE
    /\ length_before = 0
    /\ pc = "protect"
    /\ passes = 0

Init == ScanInit \/ FormatInit

\* ------------------------------------------------------------------------
\* to_blocks
\* ------------------------------------------------------------------------

\* The loop is entered with the pointer on a line that takes branch b.
At_branch(b) ==
    /\ call = "to_blocks"
    /\ status = "scanning"
    /\ i < Len(text_lines)
    /\ branch_table[At(text_lines, i)] = b

Item(kind, next, ignoring, block) ==
    [kind |-> kind, from |-> i, to |-> next, ignoring |-> ignoring,
     block |-> block]

\* The end of an iteration whose branch came to r: the exception leaves the
\* function, or the block gets its parent and is appended unless ignored.
Finish(kind, r) ==
    IF r.raised
    THEN /\ status' = "raised"
         /\ error' = r.error
         /\ UNCHANGED <<call, text_lines, i, content_blocks, is_ignoring,
                        stdout, items, format_vars>>
    ELSE /\ i' = r.next
         /\ content_blocks' =
                emit(content_blocks, with_parent(r.block, parent), is_ignoring)
         /\ items' = Append(items,
                Item(kind, r.next, is_ignoring, with_parent(r.block, parent)))
         /\ UNCHANGED <<call, text_lines, is_ignoring, status, error, stdout,
                        format_vars>>

IgnoreLine ==
    /\ At_branch("ignore")
    /\ i' = i + 1
    /\ items' = Append(items, Item("ignore", i + 1, is_ignoring, NoBlock))
    /\ UNCHANGED <<call, text_lines, content_blocks, is_ignoring, status,
                   error, stdout, format_vars>>

SeparatorLine ==
    /\ At_branch("separator")
    /\ is_ignoring' = ~is_ignoring
    /\ i' = i + 1
    /\ items' = Append(items, Item("separator", i + 1, ~is_ignoring, NoBlock))
    /\ UNCHANGED <<call, text_lines, content_blocks, status, error, stdout,
                   format_vars>>

SectionBlock ==
    /\ At_branch("header")
    /\ Finish("Section", section_block(text_lines, i))

EquationBlock ==
    /\ At_branch("equation")
    /\ Finish("Equation", equation_block(text_lines, i))

LabeledEquationBlock ==
    /\ At_branch("labeled")
    /\ Finish("Equation", labeled_equation_block(text_lines, i))

ListBlock ==
    /\ At_branch("list")
    /\ Finish("List", list_block(text_lines, i))

QuoteBlock ==
    /\ At_branch("quote")
    /\ Finish("Quote", quote_block(text_lines, i))

FigureBlock ==
    /\ At_branch("figure")
    /\ Finish("Figure", figure_block(text_lines, i))

FootnoteBlock ==
    /\ At_branch("footnote")
    /\ Finish("Footnote", footnote_block(text_lines, i))

ParagraphBlock ==
    /\ At_branch("paragraph")
    /\ Finish("Paragraph", paragraph_block(text_lines, i))

\* The loop is left: the warning if still ignoring, then the return.
Return ==
    /\ call = "to_blocks"
    /\ status = "scanning"
    /\ ~(i < Len(text_lines))
    /\ stdout' = IF is_ignoring THEN Append(stdout, Warning) ELSE stdout
    /\ status' = "returned"
    /\ UNCHANGED <<call, text_lines, i, content_blocks, is_ignoring, error,
                   items, format_vars>>

\* ------------------------------------------------------------------------
\* format_text
\* ------------------------------------------------------------------------

At_pc(label) == call = "format_text" /\ pc = label

line == At(text_lines, i)

\* text_lines[i] = new, then on to the statement at label.
Goto(new, label) ==
    /\ text_lines' = [text_lines EXCEPT ![i + 1] = new]
    /\ pc' = label
    /\ UNCHANGED <<call, i, scan_vars, text_lines_origin>>

\* The three findall calls on the line, then the three sub calls.
Protect ==
    /\ At_pc("protect")
    /\ equations' = re_findall(R_equations, line)
    /\ links' = re_findall(R_links, line)
    /\ codes' = re_findall(R_codes, line)
    /\ Goto(protect(line), "escape")
    /\ UNCHANGED <<joining, length_before, passes>>

Escape ==
    /\ At_pc("escape")
    /\ Goto(escape(line), "brackets")
    /\ UNCHANGED <<equations, links, codes, joining, length_before, passes>>

GroupBrackets ==
    /\ At_pc("brackets")
    /\ Goto(group_brackets(line), "restore")
    /\ UNCHANGED <<equations, links, codes, joining, length_before, passes>>

Restore ==
    /\ At_pc("restore")
    /\ Goto(restore(line, equations, links, codes), "citations")
    /\ UNCHANGED <<equations, links, codes, joining, length_before, passes>>

\* The code citations become note citations; joining = True.
CodeCitations ==
    /\ At_pc("citations")
    /\ joining' = TRUE
    /\ Goto(code_citations(line), "join")
    /\ UNCHANGED <<equations, links, codes, length_before, passes>>

\* One pass of "while joining".
JoinPass ==
    /\ At_pc("join")
    /\ joining
    /\ length_before' = Len(line)
    /\ joining' = (Len(join_citations(line)) # Len(line))
    /\ passes' = passes + 1
    /\ Goto(join_citations(line), "join")
    /\ UNCHANGED <<equations, links, codes>>

\* The loop is left; citations and references are lowered.
CitationsAndReferences ==
    /\ At_pc("join")
    /\ ~joining
    /\ Goto(citations_and_references(line), "formatting")
    /\ UNCHANGED <<equations, links, codes, joining, length_before, passes>>

\* The text formatting; the for loop has no further line: return text_lines.
TextFormatting ==
    /\ At_pc("formatting")
    /\ Goto(text_formatting(line), "returned")
    /\ UNCHANGED <<equations, links, codes, joining, length_before, passes>>

Next ==
    \/ IgnoreLine
    \/ SeparatorLine
    \/ SectionBlock
    \/ EquationBlock
    \/ LabeledEquationBlock
    \/ ListBlock
    \/ QuoteBlock
    \/ FigureBlock
    \/ FootnoteBlock
    \/ ParagraphBlock
    \/ Return
    \/ Protect
    \/ Escape
    \/ GroupBrackets
    \/ Restore
    \/ CodeCitations
    \/ JoinPass
    \/ CitationsAndReferences
    \/ TextFormatting

Spec == Init /\ [][Next]_vars

\* ------------------------------------------------------------------------
\* Properties of to_blocks
\* ------------------------------------------------------------------------

LineAt(k) == At(text_lines, k)

Positions == 0..(Len(text_lines) - 1)

\* The iteration recorded as items[n] detected a block.
IsBlockItem(n) == items[n].kind \notin {"ignore", "separator"}

\* items[n] is an equation whose closing $$ line is missing: no
\* equation-dollar line comes after its opening one.
OpenEquation(n) ==
    /\ items[n].kind = "Equation"
    /\ LET open == IF branch_table[LineAt(items[n].from)] = "labeled"
                   THEN items[n].from + 1
                   ELSE items[n].from
       IN  \A k \in (open + 1)..(Len(text_lines) - 1) :
               ~is_equation_dollars(LineAt(k))

\* C1, as the specification states it: the pointer never decreases, and the
\* ranges of lines the handled items consume follow one another from line 0
\* without gap or overlap, none reaches outside the input, and on return
\* they are exactly 0..len-1.
C1_ExactPartition ==
    /\ \A n \in DOMAIN items :
           /\ items[n].from = (IF n = 1 THEN 0 ELSE items[n - 1].to)
           /\ items[n].from <= items[n].to
           /\ items[n].to <= Len(text_lines)
    /\ (call = "to_blocks" /\ status = "returned") => i = Len(text_lines)

\* C1, amended: every iteration moves the pointer strictly forward from a
\* line of the input; the consumed ranges follow one another from line 0
\* without gap or overlap; a range ends inside the input or at its end,
\* except that of an equation whose closing $$ line is missing, which ends at
\* len + 1; the pointer is the end of the last range, and on return every
\* line of the input lies in a range.
C1_ConsumedRanges ==
    /\ \A n \in DOMAIN items :
           /\ items[n].from = (IF n = 1 THEN 0 ELSE items[n - 1].to)
           /\ items[n].from < items[n].to
           /\ items[n].from < Len(text_lines)
           /\ items[n].to <= Len(text_lines) + 1
           /\ (items[n].to = Len(text_lines) + 1) <=> OpenEquation(n)
    /\ call = "to_blocks" =>
           i = (IF items = <<>> THEN 0 ELSE items[Len(items)].to)
    /\ (call = "to_blocks" /\ status = "returned") => i >= Len(text_lines)

\* C1, its case: the scan has returned after other items and an equation
\* left open, with the pointer one past the end of the input.
C1_OpenEquationReturned ==
    /\ status = "returned"
    /\ Len(items) >= 2
    /\ OpenEquation(Len(items))
    /\ i = Len(text_lines) + 1

SeparatorPositions == {k \in Positions : is_separator_line(LineAt(k))}

\* C2, as the specification states it: when the input holds two separator
\* lines, at a and b, and the scan returns having left no equation open, no
\* block detected between them is emitted, every block detected before a or
\* after b is emitted, and after b the flag is false and the pointer is
\* past b.
C2_SeparatorPairSuppresses ==
    \A a, b \in Positions :
        (/\ call = "to_blocks"
         /\ status = "returned"
         /\ a < b
         /\ SeparatorPositions = {a, b}
         /\ \A n \in DOMAIN items : ~OpenEquation(n)) =>
            /\ \A n \in DOMAIN items :
                   IsBlockItem(n) =>
                       /\ (a < items[n].from /\ items[n].to <= b) =>
                              items[n].ignoring
                       /\ (items[n].to <= a \/ b < items[n].from) =>
                              ~items[n].ignoring
            /\ ~is_ignoring
            /\ i > b

\* C2, the failing case: a list item, a separator, a text line, a separator;
\* the scan has returned the text line's paragraph and is still ignoring.
C2_ListSwallowsSeparator ==
    /\ status = "returned"
    /\ text_lines = <<L_item, L_separator, L_text, L_separator>>
    /\ content_blocks =
           <<List(<<L_item, L_separator>>), Paragraph(<<L_text>>)>>
    /\ is_ignoring
    /\ stdout = <<Warning>>

\* The pointer is on the labeled-equation marker at m and line m + 1 is
\* missing or is no equation-dollar line.
MarkerWithoutDollars(m) ==
    /\ call = "to_blocks"
    /\ branch_table[LineAt(m)] = "labeled"
    /\ (m + 1 >= Len(text_lines) \/ ~is_equation_dollars(LineAt(m + 1)))

\* C3, as the specification states it: a labeled-equation marker reached by
\* the pointer and not followed by an equation-dollar line ends the scan in
\* the malformed-block error (the assertion), and no block is made from it.
C3_MarkerWithoutDollarsIsMalformed ==
    \A m \in Positions :
        MarkerWithoutDollars(m) =>
            /\ \A n \in DOMAIN items : items[n].from # m
            /\ (i = m /\ status # "scanning") =>
                   /\ status = "raised"
                   /\ error.type = "AssertionError"

\* C3, the failing case: the marker is the last line, and the scan ended
\* with the IndexError of text_lines[i + 1].
C3_MarkerLastLineIndexError ==
    /\ status = "raised"
    /\ i = Len(text_lines) - 1
    /\ MarkerWithoutDollars(i)
    /\ error = [type |-> "IndexError", msg |-> "list index out of range"]

HasCaption(m) ==
    m + 1 < Len(text_lines) /\ re_match(R_caption, LineAt(m + 1)).matched

\* C4, as the specification states it: at a figure embed line m, ignoring or
\* not, a caption line at m + 1 gives one Figure block and moves the pointer
\* to m + 2; without it the scan ends in the malformed-block error (the
\* assertion).
C4_FigureOrMalformed ==
    \A m \in Positions :
        (call = "to_blocks" /\ branch_table[LineAt(m)] = "figure") =>
            /\ \A n \in DOMAIN items :
                   items[n].from = m =>
                       /\ HasCaption(m)
                       /\ items[n].kind = "Figure"
                       /\ items[n].to = m + 2
            /\ (i = m /\ status # "scanning") =>
                   /\ ~HasCaption(m)
                   /\ status = "raised"
                   /\ error.type = "AssertionError"

\* C4, the failing case: the embed line is the last line, inside an ignore
\* region or not, and the scan ended with the IndexError of text_lines[i+1].
C4_EmbedLastLineIndexError ==
    /\ status = "raised"
    /\ i = Len(text_lines) - 1
    /\ branch_table[LineAt(i)] = "figure"
    /\ error = [type |-> "IndexError", msg |-> "list index out of range"]

\* C5, as the specification states it: the settings of a detected figure
\* are the file name and then the tokens that follow the embed, none of
\* them empty: for ![[a.png]] w1 the file name a.png and the token w1.
C5_SettingsAreTheTokens ==
    \A n \in DOMAIN items :
        items[n].kind = "Figure" =>
            /\ \A k \in DOMAIN items[n].block.settings :
                   items[n].block.settings[k] # <<>>
            /\ LineAt(items[n].from) = L_figure =>
                   items[n].block.settings =
                       <<<<"a", ".", "p", "n", "g">>, <<"w", "1">>>>

\* C5, the failing case: ![[a.png]] w1 detected with an empty token between
\* the file name and w1.
C5_EmptyToken ==
    \E n \in DOMAIN items :
        /\ LineAt(items[n].from) = L_figure
        /\ items[n].block =
               Figure(<<<<"a", ".", "p", "n", "g">>, <<>>, <<"w", "1">>>>,
                      <<"k">>, <<"c">>, fig_path)

\* The number of # a line starts with.
RECURSIVE LeadingHashes(_)
LeadingHashes(l) ==
    IF l # <<>> /\ Head(l) = "#" THEN 1 + LeadingHashes(Tail(l)) ELSE 0

\* The level of a header line, one to three # and then a whitespace
\* character; 0 for any other line.
HeaderLevel(l) ==
    IF /\ LeadingHashes(l) \in 1..3
       /\ Len(l) > LeadingHashes(l)
       /\ l[LeadingHashes(l) + 1] \in Whitespace
    THEN LeadingHashes(l)
    ELSE 0

\* The first line after position k that is a header of level h, or the end
\* of the input.
NextHeader(k, h) ==
    IF \E j \in (k + 1)..(Len(text_lines) - 1) : HeaderLevel(LineAt(j)) = h
    THEN Min({j \in (k + 1)..(Len(text_lines) - 1) :
                 HeaderLevel(LineAt(j)) = h})
    ELSE Len(text_lines)

\* C6: an iteration that starts on a header line of level 1 to 3, and no
\* other, detects a Section; its level and title are the header's, its
\* content is the lines strictly between the header and the next header of
\* the same level (or the end of the input), headers of other levels among
\* them, and the pointer is left on that next header.
C6_SectionChildLines ==
    \A n \in DOMAIN items :
        /\ (items[n].kind = "Section") <=>
               (HeaderLevel(LineAt(items[n].from)) > 0)
        /\ items[n].kind = "Section" =>
               /\ items[n].to =
                      NextHeader(items[n].from,
                                 HeaderLevel(LineAt(items[n].from)))
               /\ items[n].block =
                      [type |-> "Section",
                       h_level |-> HeaderLevel(LineAt(items[n].from)),
                       title |->
                           SubSeq(LineAt(items[n].from),
                                  HeaderLevel(LineAt(items[n].from)) + 2,
                                  Len(LineAt(items[n].from))),
                       content |->
                           SubSeq(text_lines, items[n].from + 2, items[n].to),
                       fig_path |-> fig_path,
                       parent |-> parent]

\* C6, its case: a Section that keeps a header of another level as a child
\* line and ends on a later header of its own level.
C6_SectionOverOtherLevel ==
    \E n \in DOMAIN items :
        /\ items[n].kind = "Section"
        /\ items[n].to < Len(text_lines)
        /\ \E k \in (items[n].from + 1)..(items[n].to - 1) :
               /\ HeaderLevel(LineAt(k)) > 0
               /\ LineAt(k) \in
                      {items[n].block.content[c] :
                          c \in DOMAIN items[n].block.content}

\* C7: each iteration of the scan loop moves the pointer strictly forward,
\* so there are never more iterations than lines; each pass of the joining
\* loop either makes the line strictly shorter and goes on, or leaves it as
\* it is and is the last.
C7_LoopsTerminate ==
    [][/\ (items' # items) =>
              /\ i' > i
              /\ Len(items') <= Len(text_lines)
       /\ (passes' # passes) =>
              \/ Len(line') < Len(line) /\ joining'
              \/ line' = line /\ ~joining']_vars

\* C7, its case: the joining loop has ended after three passes, two of which
\* joined citations.
C7_ThreePasses ==
    /\ pc = "join"
    /\ ~joining
    /\ passes = 3
    /\ length_before = Len(line)
    /\ Len(line) < Len(text_lines_origin[1])

\* The blocks of the iterations that ran while the flag was false, in order.
RECURSIVE EmittedUpTo(_)
EmittedUpTo(n) ==
    IF n = 0
    THEN <<>>
    ELSE IF IsBlockItem(n) /\ ~items[n].ignoring
    THEN Append(EmittedUpTo(n - 1), items[n].block)
    ELSE EmittedUpTo(n - 1)

\* The flag after the first n iterations: true after an odd number of
\* separator lines.
FlagAfter(n) ==
    Cardinality({m \in 1..n : items[m].kind = "separator"}) % 2 = 1

\* items[n] holds what the iteration r detected and where it left the
\* pointer.
Detected(n, r) ==
    /\ ~r.raised
    /\ items[n].to = r.next
    /\ items[n].block =
           (IF IsBlockItem(n) THEN with_parent(r.block, parent) ELSE NoBlock)
    /\ IsBlockItem(n) <=> (r.block # NoBlock)

\* C9: whatever the flag, each iteration detects what step_of, which does
\* not read the flag, gives for its position, and moves the pointer as it
\* does; the flag a block meets is the one the separators before it leave;
\* the blocks to return are those detected while the flag was false, in
\* order; on return the warning has been written if and only if the flag is
\* still true, and no exception has been raised.
C9_FlagAffectsEmissionOnly ==
    call = "to_blocks" =>
        /\ \A n \in DOMAIN items :
               /\ Detected(n, step_of(branch_table[LineAt(items[n].from)],
                                      text_lines, items[n].from))
               /\ items[n].ignoring = FlagAfter(n)
        /\ is_ignoring = FlagAfter(Len(items))
        /\ content_blocks = EmittedUpTo(Len(items))
        /\ stdout =
               (IF status = "returned" /\ is_ignoring
                THEN <<Warning>>
                ELSE <<>>)
        /\ status = "returned" => error = NoError

\* C9, its case: the scan has returned with the flag still true, a block
\* emitted before the separator, a block suppressed after it, and the
\* warning written.
C9_ReturnedStillIgnoring ==
    /\ status = "returned"
    /\ is_ignoring
    /\ stdout = <<Warning>>
    /\ content_blocks # <<>>
    /\ \E n \in DOMAIN items : IsBlockItem(n) /\ items[n].ignoring

IsFigureOrFootnote(l) == branch_table[l] \in {"figure", "footnote"}

\* C10: a figure embed line or a footnote definition line that follows a
\* line of a paragraph is itself in the paragraph: the paragraph's content
\* is its lines, that line among them, no iteration starts on that line,
\* and a Figure or Footnote is never what the iteration after a paragraph
\* detects.
C10_ParagraphSwallowsFigure ==
    \A n \in DOMAIN items :
        /\ items[n].kind = "Paragraph" =>
               /\ items[n].to <= Len(text_lines)
               /\ items[n].block.content =
                      SubSeq(text_lines, items[n].from + 1, items[n].to)
               /\ \A k \in (items[n].from + 1)..(Len(text_lines) - 1) :
                      (k - 1 < items[n].to /\ IsFigureOrFootnote(LineAt(k)))
                          => k < items[n].to
        /\ (n > 1 /\ items[n].kind \in {"Figure", "Footnote"}) =>
               items[n - 1].kind # "Paragraph"

\* C10, its case: the scan has returned a paragraph whose content holds,
\* after its first line, a figure embed line.
C10_FigureInsideParagraph ==
    /\ status = "returned"
    /\ \E n \in DOMAIN items :
           /\ items[n].kind = "Paragraph"
           /\ \E k \in 2..Len(items[n].block.content) :
                  branch_table[items[n].block.content[k]] = "figure"

\* ------------------------------------------------------------------------
\* Properties of format_text
\* ------------------------------------------------------------------------

Placeholders == {EQ_PLACEHOLDER, LINK_PLACEHOLDER, CODE_PLACEHOLDER}

\* Every element of spans occurs in the line.
AllStand(spans) == \A k \in DOMAIN spans : Occurrences(line, spans[k]) # {}

\* C8, as the specification states it: after the restore stage every span
\* taken out of the line stands in it again with its text, and no
\* placeholder is left.
C8_ProtectedSpansRestored ==
    (call = "format_text" /\ pc = "citations") =>
        /\ AllStand(equations)
        /\ AllStand(links)
        /\ AllStand(codes)
        /\ \A ph \in Placeholders : Occurrences(line, ph) = {}

\* C8, the failing case: <BT>$b$<BT>$a_$ restored as <BT>$b$<BT>$b$, the
\* math span $a_$ dropped and $b$ put in its place.
C8_SpanDropped ==
    /\ pc = "citations"
    /\ text_lines_origin = <<T_code_math \o T_math>>
    /\ equations = <<<<"$", "b", "$">>, T_math>>
    /\ line = T_code_math \o <<"$", "b", "$">>
====
